---- MODULE Spec2Model ----
(***************************************************************************)
(* State-machine model of the jeopardy-server request handlers             *)
(* (src/src/main.py) over the clue table (src/src/models/models.py) and    *)
(* the query builders of src/src/queries.py.                               *)
(*                                                                         *)
(* Text values are TLA+ strings.  NULL stands for Python None / SQL NULL   *)
(* and "#42" for a JSON number; both are listed in NonStrings.             *)
(***************************************************************************)
EXTENDS Integers, Sequences, FiniteSets, TLC

\* ---------------------------------------------------------------- bounds
NumCats == 7      \* categories of round 1 in the full tables
MidCats == 5      \* categories of round 1 in the tables that vary category 1
MaxDate == 2      \* air dates of the variable category
NumReq == 2       \* requests in flight at once in ConcSpec
SmallCats == 1    \* categories of round 1 in the table used by ConcSpec

\* ------------------------------------------------------ program constants
RoundSize == 6    \* categories sampled when no category is requested
RestSize == 5     \* categories sampled next to a requested category
TrimSize == 5     \* slice applied to the sample next to a requested category
BoardSize == 5    \* clue count that makes an air date acceptable

NULL == "<null>"
NonStrings == {NULL, "#42"}
Truthy(v) == v # NULL /\ v # ""
IsStr(v) == v \notin NonStrings
ValidRounds == {1, 2}
Dates == 1..MaxDate
Slots == 1..NumReq

Cat(i) == "C" \o ToString(i)

\* ------------------------------------------------------- the clue table
\* One row of the clues table.
Clue(cat, round, date, k, value) ==
    LET id == ((cat * 2 + round) * (MaxDate + 2) + date) * 10 + k
    IN [id |-> id,
        round |-> round,
        clue_value |-> value,
        is_daily_double |-> (k = 1),
        category |-> Cat(cat),
        comments |-> IF k % 2 = 0 THEN "see notes" ELSE "",
        clue_text |-> "Q" \o ToString(id),
        correct_answer |-> "A" \o ToString(id),
        air_date |-> date,
        notes |-> "N" \o ToString(id)]

\* The clue values loaded for one (category, round, air date), in load order.
ShapeRows(shape) ==
    CASE shape = "none" -> <<>>
      [] shape = "three" -> <<400, 200, 600>>
      [] shape = "five" -> <<600, 200, 1000, 400, 800>>
      [] shape = "fivedup" -> <<200, 400, 400, 600, 800, 1000>>
      [] shape = "six" -> <<200, 400, 600, 800, 1000, 1200>>

\* The boards category 1 can have on an air date.
Shapes == {"five", "fivedup", "six"}

Board(cat, round, date, shape) ==
    {Clue(cat, round, date, k, ShapeRows(shape)[k]) : k \in 1..Len(ShapeRows(shape))}

\* Categories 2..n of round 1 carry fixed boards: category 2 has its complete
\* board on the older date only, category 4 is never complete, category 5 has
\* a six-value board and a three-value board, the others one complete board.
FillerShape(cat, date) ==
    CASE cat = 2 /\ date = 1 -> "five"
      [] cat = 2 /\ date = 2 -> "three"
      [] cat = 4 /\ date = 1 -> "three"
      [] cat = 5 /\ date = 1 -> "six"
      [] cat = 5 /\ date = 2 -> "three"
      [] cat \notin {2, 4, 5} /\ date = 1 -> "five"
      [] OTHER -> "none"

\* Category 1 of round 1 takes the boards of layout.feat; round 2 holds
\* category 1 and a category of its own, or nothing at all.
Layouts ==
    {l \in [feat : [Dates -> Shapes], r2 : BOOLEAN] :
        l.r2 \/ \A d \in Dates : l.feat[d] = "five"}

StoreOf(layout, ncats) ==
    UNION {Board(1, 1, d, layout.feat[d]) : d \in Dates}
    \cup UNION {Board(c, 1, d, FillerShape(c, d)) : c \in 2..ncats, d \in 1..2}
    \cup (IF layout.r2
          THEN Board(1, 2, 1, "five") \cup Board(ncats + 1, 2, 1, "three")
          ELSE {})

\* The layouts whose category 1 is complete on every air date.
PlainLayouts == {l \in [feat : [Dates -> Shapes], r2 : BOOLEAN] : \A d \in Dates : l.feat[d] = "five"}

\* Full tables with plain boards for category 1, and smaller tables with
\* every layout of category 1.
Stores ==
    {StoreOf(l, NumCats) : l \in PlainLayouts} \cup {StoreOf(l, MidCats) : l \in Layouts}
SmallStores == {StoreOf(l, SmallCats) : l \in PlainLayouts}

\* ------------------------------------------------------------- helpers
SetMax(S) == CHOOSE m \in S : \A x \in S : x <= m
SetMin(S) == CHOOSE m \in S : \A x \in S : m <= x

RECURSIVE SortedDesc(_)
SortedDesc(S) == IF S = {} THEN <<>> ELSE <<SetMax(S)>> \o SortedDesc(S \ {SetMax(S)})

RECURSIVE SortedAsc(_)
SortedAsc(S) == IF S = {} THEN <<>> ELSE <<SetMin(S)>> \o SortedAsc(S \ {SetMin(S)})

\* Every ordered selection of min(k, |S|) distinct members of S.
RECURSIVE Samples(_, _)
Samples(S, k) ==
    IF k = 0 \/ S = {} THEN {<<>>}
    ELSE UNION {{<<x>> \o p : p \in Samples(S \ {x}, k - 1)} : x \in S}

Range(seq) == {seq[i] : i \in 1..Len(seq)}

\* ----------------------------------------------------- queries.py
\* scalar() of the query: the name when some clue carries it, else nothing.
get_first_matching_category_by_name(db, category_name) ==
    {c.category : c \in {r \in db : r.category = category_name}}

\* The categories query without its LIMIT.
get_random_categories_unlimited(db, round, num_categories) ==
    Samples({c.category : c \in {r \in db : r.round = round}},
            Cardinality({c.category : c \in {r \in db : r.round = round}}))

\* GROUP BY category, ORDER BY random(), LIMIT n: any ordered sample.
get_random_categories_matching_round(db, round, num_categories) ==
    Samples({c.category : c \in {r \in db : r.round = round}}, num_categories)

\* The air dates query ordered oldest first.
get_all_airdates_ascending(db, category, round) ==
    SortedAsc({c.air_date : c \in {r \in db : r.category = category /\ r.round = round}})

get_all_airdates_for_category_and_round(db, category, round) ==
    SortedDesc({c.air_date : c \in {r \in db : r.category = category /\ r.round = round}})

\* One row per clue value (GROUP BY clue_value; the row of a group is the
\* engine's choice), ascending by value.  The set of possible results.
RECURSIVE OnePerValue(_, _)
OnePerValue(values, rows) ==
    IF values = <<>> THEN {<<>>}
    ELSE {<<r>> \o rest : r \in {q \in rows : q.clue_value = Head(values)},
                          rest \in OnePerValue(Tail(values), rows)}

\* The clues query without its GROUP BY: every row, by value and then id.
get_clues_ungrouped(db, category, round, air_date) ==
    LET rows == {r \in db : r.category = category /\ r.round = round /\ r.air_date = air_date}
        key(r) == r.clue_value * 100000 + r.id
        ordered == SortedAsc({key(r) : r \in rows})
    IN {[i \in 1..Len(ordered) |-> CHOOSE r \in rows : key(r) = ordered[i]]}

get_clues_for_category_round_and_airdate(db, category, round, air_date) ==
    LET rows == {r \in db : r.category = category /\ r.round = round /\ r.air_date = air_date}
    IN OnePerValue(SortedAsc({r.clue_value : r \in rows}), rows)

get_clue_by_id(db, clue_id) == {r \in db : r.id = clue_id}

\* --------------------------------------------------- exceptions, responses
NoArgs == <<>>
\* A message: its fixed text and the values formatted into it.
Text(msg, args) == [msg |-> msg, args |-> args]
NoText == Text("", NoArgs)

HTTPException(status_code, detail) ==
    [type |-> "HTTPException", status_code |-> status_code, detail |-> detail]
\* Any other exception; str(e) is its detail.
PyException(type, text) == [type |-> type, status_code |-> 0, detail |-> text]
NoException == [type |-> "None", status_code |-> 0, detail |-> NoText]

\* Classes that derive from ValueError (pydantic's ValidationError does).
ValueErrors == {"ValueError", "ValidationError"}

OperationalError == PyException("OperationalError", Text("database error", NoArgs))

\* What the framework sends for an HTTPException leaving a handler.
ErrorResponse(e) == [status |-> e.status_code, detail |-> e.detail, body |-> <<>>]
OkResponse(body) == [status |-> 200, detail |-> NoText, body |-> body]
NoResponse == [status |-> 0, detail |-> NoText, body |-> <<>>]

\* ------------------------------------------------------------ sessions
\* Session(db_engine): the session object of the request in slot s.
SessionOpen(sessions, s) == sessions \cup {s}
\* A close that leaves the session open.
SessionCloseLeak(sessions, s) == sessions

\* session.close() in the finally block.
SessionClose(sessions, s) == sessions \ {s}

\* ------------------------------------------------------ get_round
\* list.sort(key=clue_value): a stable insertion sort.
RECURSIVE InsertByValue(_, _)
InsertByValue(sorted, x) ==
    IF sorted = <<>> THEN <<x>>
    ELSE IF x.clue_value < Head(sorted).clue_value THEN <<x>> \o sorted
    ELSE <<Head(sorted)>> \o InsertByValue(Tail(sorted), x)

RECURSIVE SortByValue(_)
SortByValue(list) ==
    IF list = <<>> THEN <<>>
    ELSE InsertByValue(SortByValue(SubSeq(list, 1, Len(list) - 1)), list[Len(list)])

\* date.isoformat()
IsoFormat(air_date) == "2024-01-0" \o ToString(air_date)

\* The dict appended to clues_list for one clue.
ClueView(clue) ==
    [id |-> clue.id,
     clue_value |-> clue.clue_value,
     is_daily_double |-> clue.is_daily_double,
     clue_text |-> clue.clue_text,
     correct_answer |-> clue.correct_answer,
     air_date |-> IsoFormat(clue.air_date),
     notes |-> clue.notes]

\* The loop over air_dates: clues is overwritten by every date visited and
\* the loop breaks on the first date with BoardSize clues.  The set of
\* possible final values of clues.
RECURSIVE FetchClues(_, _, _, _, _)
FetchClues(db, category, round_value, air_dates, clues) ==
    IF air_dates = <<>> THEN {clues}
    ELSE UNION {IF Len(found) = BoardSize
                THEN {found}
                ELSE FetchClues(db, category, round_value, Tail(air_dates), found) :
                found \in get_clues_for_category_round_and_airdate(
                              db, category, round_value, Head(air_dates))}

\* The possible clues_list of one category.
CluesList(db, category, round_value) ==
    {SortByValue([i \in 1..Len(clues) |-> ClueView(clues[i])]) :
        clues \in FetchClues(db, category, round_value,
                             get_all_airdates_for_category_and_round(db, category, round_value),
                             <<>>)}

\* The loop over categories filling round_data.
RECURSIVE BuildRoundData(_, _, _, _)
BuildRoundData(db, round_value, categories, round_data) ==
    IF categories = <<>> THEN {round_data}
    ELSE UNION {BuildRoundData(db, round_value, Tail(categories),
                               (Head(categories) :> clues_list) @@ round_data) :
                clues_list \in CluesList(db, Head(categories), round_value)}

\* categories = [category] + [c for c in categories if c != category][:5]
WithRequested(category, categories) ==
    LET others == SelectSeq(categories, LAMBDA c : c # category)
    IN <<category>> \o SubSeq(others, 1, IF Len(others) < TrimSize THEN Len(others) ELSE TrimSize)

Returned(categories, round_data) ==
    [raised |-> NoException, categories |-> categories, value |-> round_data]
Raised(e) == [raised |-> e, categories |-> <<>>, value |-> <<>>]

\* The categories query of get_round: what it can return, or nothing when
\* the storage layer raises.
SampledCategories(db, round_value, category, storage_ok) ==
    IF storage_ok
    THEN get_random_categories_matching_round(
             db, round_value, IF Truthy(category) THEN RestSize ELSE RoundSize)
    ELSE {<<>>}

\* The body of the inner try block of get_round once the categories query
\* has returned sampled: every way it can end.
get_round_body(db, round_value, category, storage_ok, sampled) ==
    IF ~storage_ok THEN {Raised(OperationalError)}
    ELSE IF Truthy(category) /\ get_first_matching_category_by_name(db, category) = {}
    THEN {Raised(HTTPException(404, Text("Category '{}' not found", <<category>>)))}
    ELSE LET categories == IF Truthy(category)
                           THEN WithRequested(category, sampled)
                           ELSE sampled
         IN IF categories = <<>>
            THEN {Raised(HTTPException(404, Text("No categories found for this round", NoArgs)))}
            ELSE {Returned(categories, round_data) :
                     round_data \in BuildRoundData(db, round_value, categories, <<>>)}

\* except Exception as e: raise HTTPException(500, ...)
get_round_except(e) == HTTPException(500, Text("Internal server error", NoArgs))

\* --------------------------------------------------- submit_answer
\* JudgeContext(...): a pydantic model with five str fields.
JudgeContext(clue, user_answer) ==
    [category |-> clue.category,
     clue |-> clue.clue_text,
     comments |-> IF Truthy(clue.comments) THEN clue.notes ELSE "",
     correct_answer |-> clue.correct_answer,
     user_answer |-> user_answer]

JudgeContextFields == <<"category", "clue", "comments", "correct_answer", "user_answer">>

\* The values pydantic rejects; its ValidationError text quotes them.
JudgeContextInvalid(ctx) ==
    SelectSeq([i \in 1..Len(JudgeContextFields) |-> ctx[JudgeContextFields[i]]],
              LAMBDA v : ~IsStr(v))

ValidationError(values) ==
    PyException("ValidationError", Text("validation error for JudgeContext", values))

\* What awaiting judge_agent.run can deliver: a Judgement, or an exception
\* for a transport failure or for output that is not a Judgement.
Judgements == [correct : BOOLEAN, feedback : {"", "Not quite"}]
NoJudgement == [correct |-> FALSE, feedback |-> NULL]
JudgeErrors ==
    {PyException("APIConnectionError", Text("Connection error.", NoArgs)),
     PyException("UnexpectedModelBehavior", Text("Exceeded maximum retries for result validation", NoArgs))}
JudgeResults ==
    {[error |-> NoException, data |-> j] : j \in Judgements}
    \cup {[error |-> e, data |-> NoJudgement] : e \in JudgeErrors}

\* The except clauses that close submit_answer.
submit_answer_except(e) ==
    IF e.type = "HTTPException" THEN e
    ELSE IF e.type \in ValueErrors THEN HTTPException(400, e.detail)
    ELSE HTTPException(500, Text("An unexpected error occurred while processing your answer", NoArgs))

NoClue == {}
NoLocals ==
    [session |-> 0, raised |-> NoException, judge_failed |-> FALSE,
     categories |-> <<>>, clue |-> NoClue, judgement |-> NoJudgement]

\* submit_answer up to the await of judge_agent.run: the exception that
\* leaves the handler's outer try, or none when the handler suspends.
\*   opened: a session was created; suspended: the judge call is awaited.
submit_answer_begin(db, clue_id, user_answer, storage_ok) ==
    IF clue_id = 0
    THEN [opened |-> FALSE, suspended |-> FALSE, judge_failed |-> FALSE, clue |-> NoClue,
          raised |-> HTTPException(400, Text("clue_id is required", NoArgs))]
    ELSE IF ~Truthy(user_answer)
    THEN [opened |-> FALSE, suspended |-> FALSE, judge_failed |-> FALSE, clue |-> NoClue,
          raised |-> HTTPException(400, Text("user_answer is required", NoArgs))]
    ELSE IF ~storage_ok
    THEN [opened |-> TRUE, suspended |-> FALSE, judge_failed |-> FALSE, clue |-> NoClue,
          raised |-> OperationalError]
    ELSE LET clue == get_clue_by_id(db, clue_id)
         IN IF clue = {}
            THEN [opened |-> TRUE, suspended |-> FALSE, judge_failed |-> FALSE, clue |-> NoClue,
                  raised |-> HTTPException(404, Text("Clue not found", NoArgs))]
            ELSE LET invalid == JudgeContextInvalid(JudgeContext(CHOOSE c \in clue : TRUE, user_answer))
                 IN IF invalid # <<>>
                    THEN [opened |-> TRUE, suspended |-> FALSE, judge_failed |-> TRUE, clue |-> clue,
                          raised |-> ValidationError(invalid)]
                    ELSE [opened |-> TRUE, suspended |-> TRUE, judge_failed |-> FALSE, clue |-> clue,
                          raised |-> NoException]

\* The response dict built from the judgement.
AnswerBody(judgement, user_answer, clue) ==
    [correct |-> judgement.correct,
     feedback |-> judgement.feedback,
     user_answer |-> user_answer,
     correct_answer |-> clue.correct_answer]

\* ---------------------------------------------------------------- state
VARIABLES
    clues,          \* the clues table
    pc,             \* per slot: "idle", "judging", "judged" or "done"
    request,        \* per slot: the request being handled
    locals,         \* per slot: the handler's local variables
    open_sessions,  \* the sessions created and not yet closed
    response        \* per slot: the response sent to the client

vars == <<clues, pc, request, locals, open_sessions, response>>

NoRequest == [op |-> "none", round_value |-> 0, category |-> NULL, clue_id |-> 0, user_answer |-> NULL]

RoundValues == {0, 1, 2}
CategoryInputs(db) ==
    {NULL, "NOPE", Cat(1)}
    \cup {c.category : c \in {r \in db : r.round = 2 /\ \A q \in db : q.category = r.category => q.round = 2}}
\* 0 stands for a clue_id that is missing, null, 0 or "".
ClueIdInputs(db) ==
    {0, 999999}
    \cup {c.id : c \in {r \in db : r.category = Cat(1) /\ r.round = 1 /\ r.air_date = 1 /\ r.id % 10 \in {1, 2}}}
UserAnswerInputs == {"", "guess", "#42"}

InitWith(stores, n) ==
    /\ clues \in stores
    /\ pc = [s \in 1..n |-> "idle"]
    /\ request = [s \in 1..n |-> NoRequest]
    /\ locals = [s \in 1..n |-> NoLocals]
    /\ open_sessions = {}
    /\ response = [s \in 1..n |-> NoResponse]

Init == InitWith(Stores, 1)
ConcInit == InitWith(SmallStores, NumReq)

\* GET /round/{round_value}?category=...: the handler has no await, so it
\* runs from the request to the response in one step.
GetRound(s) ==
    /\ s \in DOMAIN pc
    /\ pc[s] = "idle"
    /\ \E round_value \in RoundValues, category \in CategoryInputs(clues), storage_ok \in BOOLEAN :
        /\ request' = [request EXCEPT ![s] =
              [NoRequest EXCEPT !.op = "get_round", !.round_value = round_value, !.category = category]]
        /\ IF round_value \notin ValidRounds
           THEN /\ response' = [response EXCEPT ![s] = ErrorResponse(HTTPException(400,
                        Text("Round value must be 1 (Single Jeopardy) or 2 (Double Jeopardy)", NoArgs)))]
                /\ locals' = [locals EXCEPT ![s] = NoLocals]
                /\ open_sessions' = open_sessions
           ELSE \E sampled \in SampledCategories(clues, round_value, category, storage_ok) :
                \E out \in get_round_body(clues, round_value, category, storage_ok, sampled) :
                /\ open_sessions' = SessionClose(SessionOpen(open_sessions, s), s)
                /\ locals' = [locals EXCEPT ![s] =
                      [NoLocals EXCEPT !.session = s, !.raised = out.raised, !.categories = out.categories]]
                /\ response' = [response EXCEPT ![s] =
                      IF out.raised = NoException
                      THEN OkResponse(out.value)
                      ELSE ErrorResponse(get_round_except(out.raised))]
    /\ pc' = [pc EXCEPT ![s] = "done"]
    /\ UNCHANGED clues

\* POST /answer, from the request to the await of the judge call (or to the
\* response when the handler ends before it).
SubmitAnswer(s) ==
    /\ s \in DOMAIN pc
    /\ pc[s] = "idle"
    /\ \E clue_id \in ClueIdInputs(clues), user_answer \in UserAnswerInputs, storage_ok \in BOOLEAN :
        LET out == submit_answer_begin(clues, clue_id, user_answer, storage_ok)
        IN /\ request' = [request EXCEPT ![s] =
                 [NoRequest EXCEPT !.op = "submit_answer", !.clue_id = clue_id, !.user_answer = user_answer]]
           /\ locals' = [locals EXCEPT ![s] =
                 [NoLocals EXCEPT !.session = IF out.opened THEN s ELSE 0,
                                  !.raised = out.raised,
                                  !.judge_failed = out.judge_failed,
                                  !.clue = out.clue]]
           /\ IF out.suspended
              THEN /\ open_sessions' = SessionOpen(open_sessions, s)
                   /\ pc' = [pc EXCEPT ![s] = "judging"]
                   /\ response' = response
              ELSE /\ open_sessions' = IF out.opened
                                       THEN SessionClose(SessionOpen(open_sessions, s), s)
                                       ELSE open_sessions
                   /\ pc' = [pc EXCEPT ![s] = "done"]
                   /\ response' = [response EXCEPT ![s] = ErrorResponse(submit_answer_except(out.raised))]
    /\ UNCHANGED clues

\* The evaluator answers the judge call of slot s, or the call fails.
JudgeReplies(s) ==
    /\ s \in DOMAIN pc
    /\ pc[s] = "judging"
    /\ \E result \in JudgeResults :
        locals' = [locals EXCEPT ![s].raised = result.error,
                                 ![s].judge_failed = (result.error # NoException),
                                 ![s].judgement = result.data]
    /\ pc' = [pc EXCEPT ![s] = "judged"]
    /\ UNCHANGED <<clues, request, open_sessions, response>>

\* submit_answer resumes after the await: the response dict or the re-raise,
\* the finally block, the except clauses.
SubmitAnswerResume(s) ==
    /\ s \in DOMAIN pc
    /\ pc[s] = "judged"
    /\ open_sessions' = SessionClose(open_sessions, s)
    /\ response' = [response EXCEPT ![s] =
          IF locals[s].raised = NoException
          THEN OkResponse(AnswerBody(locals[s].judgement, request[s].user_answer,
                                     CHOOSE c \in locals[s].clue : TRUE))
          ELSE ErrorResponse(submit_answer_except(locals[s].raised))]
    /\ pc' = [pc EXCEPT ![s] = "done"]
    /\ UNCHANGED <<clues, request, locals>>

\* The client has the response; the slot is free for the next request.
Complete(s) ==
    /\ s \in DOMAIN pc
    /\ pc[s] = "done"
    /\ pc' = [pc EXCEPT ![s] = "idle"]
    /\ request' = [request EXCEPT ![s] = NoRequest]
    /\ locals' = [locals EXCEPT ![s] = NoLocals]
    /\ response' = [response EXCEPT ![s] = NoResponse]
    /\ UNCHANGED <<clues, open_sessions>>

Next ==
    \E s \in Slots :
        \/ GetRound(s)
        \/ SubmitAnswer(s)
        \/ JudgeReplies(s)
        \/ SubmitAnswerResume(s)
        \/ Complete(s)

Spec == Init /\ [][Next]_vars
ConcSpec == ConcInit /\ [][Next]_vars

\* The event loop runs a handler whose await has completed, and a response
\* that is ready is delivered; nothing in the code bounds the wait for the
\* evaluator, and requests arrive when clients send them.
Fairness ==
    \A s \in Slots : WF_vars(SubmitAnswerResume(s)) /\ WF_vars(Complete(s))
LiveSpec == ConcInit /\ [][Next]_vars /\ Fairness

\* ------------------------------------------------------------ properties
Done(s, op) == pc[s] = "done" /\ request[s].op = op
RoundOk(s) ==
    /\ Done(s, "get_round")
    /\ request[s].round_value \in ValidRounds
    /\ response[s].status = 200

RowsAt(category, round, air_date) ==
    {r \in clues : r.category = category /\ r.round = round /\ r.air_date = air_date}
ValuesAt(category, round, air_date) ==
    {r.clue_value : r \in RowsAt(category, round, air_date)}
DatesOf(category, round) ==
    {r.air_date : r \in {q \in clues : q.category = category /\ q.round = round}}
CompleteDates(category, round) ==
    {d \in DatesOf(category, round) : Cardinality(ValuesAt(category, round, d)) = 5}
CategoriesOf(round) == {r.category : r \in {q \in clues : q.round = round}}

\* C1: a not-found error raised inside get_round (requested category not
\* found, or no category resolved) reaches the client with status 404.
C1_NotFoundReaches404 ==
    \A s \in DOMAIN pc :
        (/\ Done(s, "get_round")
         /\ request[s].round_value \in ValidRounds
         /\ locals[s].raised.type = "HTTPException"
         /\ locals[s].raised.status_code = 404)
        => response[s].status = 404

\* C2: when a category is requested for round r and no clue has that
\* category in round r, get_round does not answer 200.
C2_RequestedCategoryMustBeInRound ==
    \A s \in DOMAIN pc :
        (/\ Done(s, "get_round")
         /\ request[s].round_value \in ValidRounds
         /\ Truthy(request[s].category)
         /\ request[s].category \notin CategoriesOf(request[s].round_value))
        => response[s].status # 200

\* C3: in every successful get_round result each clue list is strictly
\* ascending by clue_value, repeats no id, and has exactly 5 entries whenever
\* some air date of the category in the round has exactly 5 distinct values.
C3_ListsStrictlyAscending ==
    \A s \in DOMAIN pc :
        RoundOk(s) =>
            \A c \in DOMAIN response[s].body :
                LET list == response[s].body[c]
                IN /\ \A i \in 1..(Len(list) - 1) : list[i].clue_value < list[i + 1].clue_value
                   /\ \A i, j \in 1..Len(list) : i # j => list[i].id # list[j].id
                   /\ CompleteDates(c, request[s].round_value) # {} => Len(list) = 5

\* C3 witness: a returned list of 5 clues taken from an air date that stores
\* 6 rows, two of them with the same value.
C3_Witness ==
    \E s \in DOMAIN pc :
        /\ RoundOk(s)
        /\ \E c \in DOMAIN response[s].body :
            /\ Len(response[s].body[c]) = 5
            /\ \E r \in clues :
                /\ r.id = response[s].body[c][1].id
                /\ Cardinality(RowsAt(c, request[s].round_value, r.air_date)) = 6

\* C4: every successful get_round result has at most 6 keys, its keys are
\* the distinct categories of the assembled list, and a requested category
\* that exists is one of the keys.
C4_AtMostSixKeys ==
    \A s \in DOMAIN pc :
        RoundOk(s) =>
            /\ Cardinality(DOMAIN response[s].body) <= 6
            /\ DOMAIN response[s].body = Range(locals[s].categories)
            /\ Truthy(request[s].category) => request[s].category \in DOMAIN response[s].body

\* C4 witness: a requested category in a result of fewer keys than the round
\* could fill, i.e. the sample already contained the requested category.
C4_Witness ==
    \E s \in DOMAIN pc :
        /\ RoundOk(s)
        /\ Truthy(request[s].category)
        /\ request[s].category \in DOMAIN response[s].body
        /\ Cardinality(CategoriesOf(request[s].round_value)) >= 6
        /\ Cardinality(DOMAIN response[s].body) = 5

\* What a response shows of the answer text ans.
Carries(s, ans) ==
    \/ ans \in Range(response[s].detail.args)
    \/ /\ response[s].status = 200
       /\ request[s].op = "get_round"
       /\ \E c \in DOMAIN response[s].body :
            \E i \in 1..Len(response[s].body[c]) : response[s].body[c][i].correct_answer = ans
    \/ /\ response[s].status = 200
       /\ request[s].op = "submit_answer"
       /\ response[s].body.correct_answer = ans

\* C5: a failure of the judge step of POST /answer is answered with status
\* 500 and the fixed generic detail.
C5_JudgeFailureIs500 ==
    \A s \in DOMAIN pc :
        (Done(s, "submit_answer") /\ locals[s].judge_failed) =>
            /\ response[s].status = 500
            /\ response[s].detail =
                 Text("An unexpected error occurred while processing your answer", NoArgs)

\* C6: a response carries the stored correct_answer of a clue only when it is
\* the successful response of a POST /answer for that clue.
C6_AnswerOnlyAfterJudgment ==
    \A s \in DOMAIN pc :
        pc[s] = "done" =>
            \A r \in clues :
                Carries(s, r.correct_answer) =>
                    /\ request[s].op = "submit_answer"
                    /\ response[s].status = 200
                    /\ request[s].clue_id = r.id

\* C7: every request that reaches the judge call eventually gets a response.
C7_JudgeCallEnds ==
    \A s \in Slots : (pc[s] = "judging") ~> (pc[s] = "done")

\* C8: a request that has its response has closed the session it opened; a
\* request waiting on the judge still has its own session open, whatever the
\* other requests did; with no request in progress no session is open.
C8_SessionsReleased ==
    /\ \A s \in DOMAIN pc :
        /\ (pc[s] = "done" /\ locals[s].session # 0) => locals[s].session \notin open_sessions
        /\ pc[s] \in {"judging", "judged"} => locals[s].session \in open_sessions
    /\ open_sessions \subseteq {locals[s].session : s \in {t \in DOMAIN pc : pc[t] \in {"judging", "judged"}}}

\* C8 witness: one request is suspended in the judge call while another has
\* ended in a judge failure after opening its session.
C8_Witness ==
    \E s, t \in DOMAIN pc :
        /\ s # t
        /\ pc[s] = "judging"
        /\ Done(t, "submit_answer")
        /\ locals[t].judge_failed
        /\ locals[t].session = t
        /\ open_sessions = {s}

\* C9: when a category has an air date with exactly 5 distinct clue values,
\* its returned list is exactly the clues of the most recent such date.
C9_MostRecentCompleteDate ==
    \A s \in DOMAIN pc :
        RoundOk(s) =>
            \A c \in DOMAIN response[s].body :
                LET complete == CompleteDates(c, request[s].round_value)
                    list == response[s].body[c]
                IN complete # {} =>
                    LET rows == RowsAt(c, request[s].round_value, SetMax(complete))
                    IN /\ Len(list) = 5
                       /\ {list[i].id : i \in 1..Len(list)} \subseteq {r.id : r \in rows}
                       /\ {list[i].clue_value : i \in 1..Len(list)} = {r.clue_value : r \in rows}

\* C9 witness: a result holding a category with two complete air dates and a
\* category whose most recent air date is not complete while an older one is.
C9_Witness ==
    \E s \in DOMAIN pc :
        /\ RoundOk(s)
        /\ \E c \in DOMAIN response[s].body :
            Cardinality(CompleteDates(c, request[s].round_value)) >= 2
        /\ \E c \in DOMAIN response[s].body :
            LET complete == CompleteDates(c, request[s].round_value)
            IN /\ complete # {}
               /\ \E d \in DatesOf(c, request[s].round_value) : d > SetMax(complete)

\* C10: with a requested category that exists and a round of at least 6
\* categories, the assembled list has exactly 6 distinct categories, the
\* requested one first.
C10_ExactlySixWithRequested ==
    \A s \in DOMAIN pc :
        (/\ Done(s, "get_round")
         /\ request[s].round_value \in ValidRounds
         /\ locals[s].raised = NoException
         /\ Truthy(request[s].category)
         /\ request[s].category \in CategoriesOf(request[s].round_value)
         /\ Cardinality(CategoriesOf(request[s].round_value)) >= 6)
        => /\ Len(locals[s].categories) = 6
           /\ Cardinality(Range(locals[s].categories)) = 6
           /\ locals[s].categories[1] = request[s].category

====
